---- MODULE Spec2Model ----
(***************************************************************************)
(* Model of app.py, the interactive sales dashboard.  The script is run    *)
(* top to bottom once at start-up and once more after every change of a    *)
(* sidebar control.  One run is one action: it reads the three controls,   *)
(* filters the cached dataset, derives the KPIs, the time series, the      *)
(* Sankey lists and the word-cloud frequencies, and renders the charts.    *)
(***************************************************************************)
EXTENDS Integers, Sequences, FiniteSets

\* ---------------------------------------------------------------- bounds
MaxRows == 2

\* ------------------------------------------------------ input value sets
RegionLabels  == {"East", "West"}
ProductLabels == {"Widget", "Gadget"}
Days          == {1, 2}
\* <<Sales, Quantity>> of a row
Orders        == {<<100, 2>>, <<50, 1>>, <<50, 0>>}

\* A Timestamp is <<day, second of the day>>; a calendar date is a day.
to_datetime(d) == <<d, 0>>

TsLeq(a, b) == a[1] < b[1] \/ (a[1] = b[1] /\ a[2] <= b[2])

\* One row of sales_data.csv; parse_dates turns the calendar date of the
\* Date column into the Timestamp of that day's midnight.
Rows ==
  {[Date |-> to_datetime(d), Region |-> r, Product |-> p,
    Sales |-> o[1], Quantity |-> o[2]] :
     d \in Days, r \in RegionLabels, p \in ProductLabels, o \in Orders}

SeqsUpTo(S, n) == UNION {[1..k -> S] : k \in 1..n}

Datasets == SeqsUpTo(Rows, MaxRows)

\* ------------------------------------------------------- pandas helpers
\* an empty selection read as "no filter"
isin_or_unset(x, selected) == selected = {} \/ x \in selected

isin(x, selected) == x \in selected

\* inclusive="left" instead of the default "both"
between_left(x, left, right) == TsLeq(left, x) /\ ~TsLeq(right, x)

between(x, left, right) == TsLeq(left, x) /\ TsLeq(x, right)

\* Series.count() instead of Series.sum()
col_count(frame, col) == Len(frame)

RECURSIVE col_sum(_, _)
col_sum(frame, col) ==
  IF frame = <<>> THEN 0
  ELSE frame[1][col] + col_sum(Tail(frame), col)

RECURSIVE unique(_)
unique(column) ==
  IF column = <<>> THEN <<>>
  ELSE LET init == unique(SubSeq(column, 1, Len(column) - 1))
           last == column[Len(column)]
       IN  IF \E i \in 1..Len(init) : init[i] = last
           THEN init ELSE Append(init, last)

column(frame, col) == [i \in 1..Len(frame) |-> frame[i][col]]

Range(s) == {s[i] : i \in 1..Len(s)}

\* Ascending order of a set of Timestamps.
RECURSIVE sort_values(_)
sort_values(S) ==
  IF S = {} THEN <<>>
  ELSE LET m == CHOOSE x \in S : \A y \in S : TsLeq(x, y)
       IN  <<m>> \o sort_values(S \ {m})

\* groupby(col, sort=False): keys in order of first appearance
group_keys_unsorted(frame, col) == unique(column(frame, col))

\* Keys of DataFrame.groupby(col): sort=True is the default.
group_keys(frame, col) == sort_values(Range(column(frame, col)))

group_rows(frame, col, key) == SelectSeq(frame, LAMBDA row : row[col] = key)

\* ------------------------------------------------------------ the script
VARIABLES df, region_filter, product_filter, date_filter,
          df_filtered, total_sales, total_quantity, avg_order_value,
          sales_over_time, labels, sources, targets, values, word_freq,
          charts, infos, err

vars == <<df, region_filter, product_filter, date_filter,
          df_filtered, total_sales, total_quantity, avg_order_value,
          sales_over_time, labels, sources, targets, values, word_freq,
          charts, infos, err>>

\* Row test of the boolean mask; date_filter[0] and date_filter[1] of the
\* script are elements 1 and 2 of the tuple here.
\* `|` between the two facet tests instead of `&`
mask_either_facet(row, regions_sel, products_sel, dates) ==
  /\ isin(row.Region, regions_sel) \/ isin(row.Product, products_sel)
  /\ between(row.Date, to_datetime(dates[1]), to_datetime(dates[2]))

mask(row, regions_sel, products_sel, dates) ==
  /\ isin(row.Region, regions_sel)
  /\ isin(row.Product, products_sel)
  /\ between(row.Date, to_datetime(dates[1]), to_datetime(dates[2]))

apply_filters(frame, regions_sel, products_sel, dates) ==
  SelectSeq(frame, LAMBDA row : mask(row, regions_sel, products_sel, dates))

\* Quotients are kept exact, as a fraction in lowest terms.
RECURSIVE GCD(_, _)
GCD(a, b) == IF b = 0 THEN a ELSE GCD(b, a % b)

NaN  == [num |-> 0, den |-> 0]
Zero == [num |-> 0, den |-> 1]

true_divide(a, b) ==
  IF b = 0 THEN NaN
  ELSE [num |-> a \div GCD(a, b), den |-> b \div GCD(a, b)]

\* the division without its guard
avg_order_value_unguarded(sales, quantity) == true_divide(sales, quantity)

avg_order_value_of(sales, quantity) ==
  IF quantity > 0 THEN true_divide(sales, quantity) ELSE Zero

groupby_date_sales(frame) ==
  LET keys == group_keys(frame, "Date")
  IN  [k \in 1..Len(keys) |->
         [Date |-> keys[k],
          Sales |-> col_sum(group_rows(frame, "Date", keys[k]), "Sales")]]

groupby_product_sales(frame) ==
  [p \in Range(column(frame, "Product")) |->
     col_sum(group_rows(frame, "Product", p), "Sales")]

\* enumerate() counts from 0.
position(list, x) == (CHOOSE i \in 1..Len(list) : list[i] = x) - 1

region_idx_of(regions) ==
  [r \in Range(regions) |-> position(regions, r)]

\* the offset len(regions) left out
product_idx_no_offset(regions, products) ==
  [p \in Range(products) |-> position(products, p)]

product_idx_of(regions, products) ==
  [p \in Range(products) |-> Len(regions) + position(products, p)]

\* parallel edges of one region/product pair summed into one edge
RECURSIVE sankey_links_merged(_, _, _)
sankey_links_merged(frame, region_idx, product_idx) ==
  IF frame = <<>> THEN [sources |-> <<>>, targets |-> <<>>, values |-> <<>>]
  ELSE LET n    == Len(frame)
           row  == frame[n]
           prev == sankey_links_merged(SubSeq(frame, 1, n - 1),
                                       region_idx, product_idx)
           same == {e \in DOMAIN prev.sources :
                      /\ prev.sources[e] = region_idx[row.Region]
                      /\ prev.targets[e] = product_idx[row.Product]}
       IN  IF same = {}
           THEN [sources |-> Append(prev.sources, region_idx[row.Region]),
                 targets |-> Append(prev.targets, product_idx[row.Product]),
                 values  |-> Append(prev.values, row.Sales)]
           ELSE [prev EXCEPT !.values =
                   [e \in DOMAIN prev.values |->
                      IF e \in same THEN prev.values[e] + row.Sales
                      ELSE prev.values[e]]]

RECURSIVE sankey_links(_, _, _)
sankey_links(frame, region_idx, product_idx) ==
  IF frame = <<>> THEN [sources |-> <<>>, targets |-> <<>>, values |-> <<>>]
  ELSE LET n    == Len(frame)
           row  == frame[n]
           prev == sankey_links(SubSeq(frame, 1, n - 1), region_idx, product_idx)
       IN  [sources |-> Append(prev.sources, region_idx[row.Region]),
            targets |-> Append(prev.targets, product_idx[row.Product]),
            values  |-> Append(prev.values, row.Sales)]

\* Charts handed to st.plotly_chart / st.pyplot, and st.info placeholders.
rendered_charts(freq) ==
  {"time", "region", "product", "sankey"}
    \cup (IF DOMAIN freq # {} THEN {"wordcloud"} ELSE {})

rendered_infos(freq) == IF DOMAIN freq # {} THEN {} ELSE {"wordcloud"}

\* A run that stops at line 43 leaves nothing below it computed or drawn.
Aborted(e) ==
  [df_filtered |-> <<>>, total_sales |-> 0, total_quantity |-> 0,
   avg_order_value |-> Zero, sales_over_time |-> <<>>, labels |-> <<>>,
   sources |-> <<>>, targets |-> <<>>, values |-> <<>>, word_freq |-> <<>>,
   charts |-> {}, infos |-> {}, err |-> e]

\* One run of the script below the sidebar (lines 39-136).
Run(frame, regions_sel, products_sel, dates) ==
  IF Len(dates) < 2 THEN Aborted("IndexError")
  ELSE
    LET filtered == apply_filters(frame, regions_sel, products_sel, dates)
        sales    == col_sum(filtered, "Sales")
        quantity == col_sum(filtered, "Quantity")
        regions  == unique(column(filtered, "Region"))
        products == unique(column(filtered, "Product"))
        links    == sankey_links(filtered, region_idx_of(regions),
                                 product_idx_of(regions, products))
        freq     == groupby_product_sales(filtered)
    IN  [df_filtered |-> filtered, total_sales |-> sales,
         total_quantity |-> quantity,
         avg_order_value |-> avg_order_value_of(sales, quantity),
         sales_over_time |-> groupby_date_sales(filtered),
         labels |-> regions \o products,
         sources |-> links.sources, targets |-> links.targets,
         values |-> links.values, word_freq |-> freq,
         charts |-> rendered_charts(freq), infos |-> rendered_infos(freq),
         err |-> "none"]

\* The outputs of one run become the page.
Shown(run) ==
  \E out \in {run} :
    /\ df_filtered' = out.df_filtered
    /\ total_sales' = out.total_sales
    /\ total_quantity' = out.total_quantity
    /\ avg_order_value' = out.avg_order_value
    /\ sales_over_time' = out.sales_over_time
    /\ labels' = out.labels
    /\ sources' = out.sources
    /\ targets' = out.targets
    /\ values' = out.values
    /\ word_freq' = out.word_freq
    /\ charts' = out.charts
    /\ infos' = out.infos
    /\ err' = out.err

\* Timestamp.date()
date_of(ts) == ts[1]

region_options  == Range(unique(column(df, "Region")))
product_options == Range(unique(column(df, "Product")))

\* First run: load_data(), the widgets at their defaults, then lines 39-136.
Init ==
  /\ df \in Datasets
  /\ region_filter = Range(unique(column(df, "Region")))
  /\ product_filter = Range(unique(column(df, "Product")))
  /\ LET dates == sort_values(Range(column(df, "Date")))
     IN  date_filter = <<date_of(dates[1]), date_of(dates[Len(dates)])>>
  /\ \E out \in {Run(df, region_filter, product_filter, date_filter)} :
         /\ df_filtered = out.df_filtered
         /\ total_sales = out.total_sales
         /\ total_quantity = out.total_quantity
         /\ avg_order_value = out.avg_order_value
         /\ sales_over_time = out.sales_over_time
         /\ labels = out.labels
         /\ sources = out.sources
         /\ targets = out.targets
         /\ values = out.values
         /\ word_freq = out.word_freq
         /\ charts = out.charts
         /\ infos = out.infos
         /\ err = out.err

toggle(selected, x) ==
  IF x \in selected THEN selected \ {x} ELSE selected \cup {x}

\* The user adds or removes one option of the region multiselect.
ChangeRegion ==
  \E r \in region_options :
    /\ region_filter' = toggle(region_filter, r)
    /\ UNCHANGED <<df, product_filter, date_filter>>
    /\ Shown(Run(df, region_filter', product_filter, date_filter))

\* The user adds or removes one option of the product multiselect.
ChangeProduct ==
  \E p \in product_options :
    /\ product_filter' = toggle(product_filter, p)
    /\ UNCHANGED <<df, region_filter, date_filter>>
    /\ Shown(Run(df, region_filter, product_filter', date_filter))

\* A click in the range picker: on a complete range it starts a new range
\* and the widget returns the one date picked so far; on a started range it
\* completes it when the date is not before the start.
date_input(current, d) ==
  IF Len(current) = 1 /\ current[1] <= d THEN <<current[1], d>> ELSE <<d>>

ChangeDate ==
  \E d \in Days :
    /\ date_filter' = date_input(date_filter, d)
    /\ UNCHANGED <<df, region_filter, product_filter>>
    /\ Shown(Run(df, region_filter, product_filter, date_filter'))

Next == ChangeRegion \/ ChangeProduct \/ ChangeDate

Spec == Init /\ [][Next]_vars

TypeOK ==
  /\ df \in Datasets
  /\ region_filter \subseteq RegionLabels
  /\ product_filter \subseteq ProductLabels
  /\ Len(date_filter) \in {1, 2}
  /\ err \in {"none", "IndexError"}
\* ------------------------------------------------------------ properties
\* Sum of the function f over a finite set S of its domain, by removing one element at a time.
RECURSIVE SetSum(_, _)
SetSum(S, f) ==
  IF S = {} THEN 0
  ELSE LET x == CHOOSE y \in S : TRUE IN f[x] + SetSum(S \ {x}, f)

Completed == err = "none"

DayOfRow(row) == row.Date[1]

\* The three tests of the FilterSelection, on row i of the Dataset.
Passes(i) ==
  /\ df[i].Region \in region_filter
  /\ df[i].Product \in product_filter
  /\ date_filter[1] <= DayOfRow(df[i])
  /\ DayOfRow(df[i]) <= date_filter[2]

Passing == {i \in 1..Len(df) : Passes(i)}

\* C1: the FilteredView is the subsequence of the Dataset rows, in row
\* order, that are in the region set, in the product set and dated within
\* [start, end], both ends included: its k-th row is the k-th passing row.
C1_FilteredIsPassingSubsequence ==
  Completed =>
    /\ Len(df_filtered) = Cardinality(Passing)
    /\ \A k \in 1..Len(df_filtered) :
         \E i \in Passing :
           /\ Cardinality({j \in Passing : j <= i}) = k
           /\ df_filtered[k] = df[i]

\* C1 case reached: a one-day range that keeps a row and drops a row.
C1_Witness ==
  /\ Completed
  /\ date_filter[1] = date_filter[2]
  /\ Len(df_filtered) > 0
  /\ \E i \in 1..Len(df) :
       /\ df[i].Region \in region_filter
       /\ df[i].Product \in product_filter
       /\ DayOfRow(df[i]) # date_filter[1]

InInterval(i) ==
  date_filter[1] <= DayOfRow(df[i]) /\ DayOfRow(df[i]) <= date_filter[2]

RowSatisfiesSelection(row) ==
  /\ row.Region \in region_filter
  /\ row.Product \in product_filter
  /\ date_filter[1] <= DayOfRow(row)
  /\ DayOfRow(row) <= date_filter[2]

\* C2 as stated: with non-empty region and product sets and a date
\* interval that contains at least one record, the FilteredView is
\* non-empty and every element satisfies the three membership predicates.
C2_Original ==
  (/\ Completed
   /\ region_filter # {}
   /\ product_filter # {}
   /\ \E i \in 1..Len(df) : InInterval(i))
  => /\ Len(df_filtered) > 0
     /\ \A k \in 1..Len(df_filtered) : RowSatisfiesSelection(df_filtered[k])

\* C2 amended: when the date interval contains at least one record whose
\* Region is in the region set and whose Product is in the product set,
\* the FilteredView is non-empty; and every element of any FilteredView
\* satisfies the three membership predicates.
C2_Amended ==
  Completed =>
    /\ (\E i \in 1..Len(df) :
          /\ InInterval(i)
          /\ df[i].Region \in region_filter
          /\ df[i].Product \in product_filter)
       => Len(df_filtered) > 0
    /\ \A k \in 1..Len(df_filtered) : RowSatisfiesSelection(df_filtered[k])

\* C2 case reached: a narrowed selection keeps one row and drops another.
C2_Witness ==
  /\ Completed
  /\ region_filter # {}
  /\ product_filter # {}
  /\ region_filter # region_options
  /\ Len(df_filtered) > 0
  /\ Len(df_filtered) < Len(df)

\* C3: totalSales is the sum of Sales, and totalQuantity the sum of
\* Quantity, over exactly the Dataset rows that pass the selection, each
\* counted once; the FilteredView holds those rows and no others.
C3_TotalsAreSumsOverFilteredView ==
  Completed =>
    /\ total_sales = SetSum(Passing, [i \in 1..Len(df) |-> df[i].Sales])
    /\ total_quantity = SetSum(Passing, [i \in 1..Len(df) |-> df[i].Quantity])
    /\ total_sales =
         SetSum(DOMAIN df_filtered, [k \in DOMAIN df_filtered |-> df_filtered[k].Sales])
    /\ total_quantity =
         SetSum(DOMAIN df_filtered, [k \in DOMAIN df_filtered |-> df_filtered[k].Quantity])

\* C3 case reached: of two rows one is counted and the other is left out.
C3_Witness ==
  /\ Completed
  /\ Len(df_filtered) = 1
  /\ Len(df) = 2
  /\ total_sales = df_filtered[1].Sales
  /\ total_quantity > 0

\* C4: avgOrderValue is totalSales / totalQuantity when totalQuantity > 0
\* and 0 otherwise; with totalQuantity = 0 it is 0, never undefined.
C4_AvgOrderValueGuarded ==
  Completed =>
    /\ avg_order_value # NaN
    /\ avg_order_value.den > 0
    /\ total_quantity > 0 =>
         avg_order_value.num * total_quantity = total_sales * avg_order_value.den
    /\ total_quantity <= 0 => avg_order_value = Zero

\* C4 case reached: a non-empty FilteredView whose quantities are all 0.
C4_Witness ==
  /\ Completed
  /\ Len(df_filtered) > 0
  /\ total_sales > 0
  /\ total_quantity = 0
  /\ avg_order_value = Zero

FilteredDates == {df_filtered[k].Date : k \in DOMAIN df_filtered}

\* C5: the TimeSeries has one entry per distinct Date of the FilteredView,
\* in strictly ascending Date order; each entry is the sum of Sales of the
\* filtered rows of that Date, and the entries add up to totalSales.
C5_TimeSeriesPartitionsSales ==
  Completed =>
    /\ {sales_over_time[k].Date : k \in DOMAIN sales_over_time} = FilteredDates
    /\ Len(sales_over_time) = Cardinality(FilteredDates)
    /\ \A k \in 1..(Len(sales_over_time) - 1) :
         /\ TsLeq(sales_over_time[k].Date, sales_over_time[k + 1].Date)
         /\ sales_over_time[k].Date # sales_over_time[k + 1].Date
    /\ \A k \in DOMAIN sales_over_time :
         sales_over_time[k].Sales =
           SetSum({i \in DOMAIN df_filtered :
                     df_filtered[i].Date = sales_over_time[k].Date},
                  [i \in DOMAIN df_filtered |-> df_filtered[i].Sales])
    /\ SetSum(DOMAIN sales_over_time,
              [k \in DOMAIN sales_over_time |-> sales_over_time[k].Sales])
         = total_sales

\* C5 case reached: the filtered rows are dated in descending order.
C5_Witness ==
  /\ Completed
  /\ Len(df_filtered) = 2
  /\ DayOfRow(df_filtered[2]) < DayOfRow(df_filtered[1])
  /\ Len(sales_over_time) = 2
  /\ sales_over_time[1].Sales # sales_over_time[2].Sales

\* C6: one edge per filtered row, in row order, parallel edges kept apart:
\* the edge count is |FilteredView|, the i-th weight is the i-th row's
\* Sales, and the weights add up to totalSales.
C6_OneEdgePerRecord ==
  Completed =>
    /\ Len(sources) = Len(df_filtered)
    /\ Len(targets) = Len(df_filtered)
    /\ Len(values) = Len(df_filtered)
    /\ \A i \in DOMAIN df_filtered : values[i] = df_filtered[i].Sales
    /\ SetSum(DOMAIN values, values) = total_sales

\* C6 case reached: two rows between the same region and product.
C6_Witness ==
  /\ Completed
  /\ Len(df_filtered) = 2
  /\ df_filtered[1].Region = df_filtered[2].Region
  /\ df_filtered[1].Product = df_filtered[2].Product
  /\ sources[1] = sources[2]
  /\ targets[1] = targets[2]
  /\ values[1] # values[2]

\* C7: with a date range and an empty region or product multiselect the run
\* completes with an empty FilteredView, all three KPIs 0, a FlowGraph of 0
\* nodes and 0 edges, and an empty ProductFrequency mapping.
C7_EmptyMultiselectGivesEmptyResult ==
  (Len(date_filter) = 2 /\ (region_filter = {} \/ product_filter = {})) =>
    /\ err = "none"
    /\ df_filtered = <<>>
    /\ total_sales = 0
    /\ total_quantity = 0
    /\ avg_order_value = Zero
    /\ labels = <<>>
    /\ sources = <<>> /\ targets = <<>> /\ values = <<>>
    /\ DOMAIN word_freq = {}

\* C7 case reached: the region multiselect emptied over a date range that
\* holds rows of the selected products.
C7_Witness ==
  /\ Len(date_filter) = 2
  /\ region_filter = {}
  /\ \E i \in 1..Len(df) : InInterval(i) /\ df[i].Product \in product_filter
  /\ err = "none"
  /\ df_filtered = <<>>

\* C8 as stated: a run whose FilteredView is empty renders no chart; the
\* flow diagram and the word cloud are each replaced by a placeholder.
C8_NoChartOnEmptyView ==
  (Completed /\ df_filtered = <<>>) =>
    /\ charts = {}
    /\ {"sankey", "wordcloud"} \subseteq infos

\* C9 as stated: every run after a control change completes without error.
C9_EveryRunCompletes == err = "none"

FilteredRegions  == {df_filtered[k].Region : k \in DOMAIN df_filtered}
FilteredProducts == {df_filtered[k].Product : k \in DOMAIN df_filtered}

FirstRowWith(col, x) ==
  CHOOSE k \in DOMAIN df_filtered :
    /\ df_filtered[k][col] = x
    /\ \A j \in 1..(k - 1) : df_filtered[j][col] # x

\* C10: the nodes are the R distinct regions in first-occurrence order at
\* indices 0..R-1, then the P distinct products in first-occurrence order
\* at R..R+P-1, no label twice; each edge runs from the index (< R) of its
\* row's Region to the index (in R..R+P-1) of its row's Product.
C10_NodeIndexing ==
  Completed =>
    LET R == Cardinality(FilteredRegions)
        P == Cardinality(FilteredProducts)
    IN  /\ Len(labels) = R + P
        /\ {labels[n] : n \in 1..R} = FilteredRegions
        /\ {labels[n] : n \in (R + 1)..(R + P)} = FilteredProducts
        /\ \A m, n \in DOMAIN labels : m # n => labels[m] # labels[n]
        /\ \A m, n \in 1..R :
             m < n => FirstRowWith("Region", labels[m])
                        < FirstRowWith("Region", labels[n])
        /\ \A m, n \in (R + 1)..(R + P) :
             m < n => FirstRowWith("Product", labels[m])
                        < FirstRowWith("Product", labels[n])
        /\ \A i \in DOMAIN df_filtered :
             /\ sources[i] \in 0..(R - 1)
             /\ labels[sources[i] + 1] = df_filtered[i].Region
             /\ targets[i] \in R..(R + P - 1)
             /\ labels[targets[i] + 1] = df_filtered[i].Product

\* C10 case reached: the two-record scenario of the specification.
C10_Witness ==
  /\ Completed
  /\ labels = <<"East", "West", "Widget", "Gadget">>
  /\ sources = <<0, 1>>
  /\ targets = <<2, 3>>
  /\ values = <<100, 50>>
====
